---- MODULE Spec2Model ----
(***************************************************************************)
(* Snapshot capture, organizational lineage and dashboard queries of the  *)
(* dashboard-case-study repository (pkg/models, pkg/service,              *)
(* pkg/repository, cmd/server and the documented restructure procedure).  *)
(* Time values are whole hours since 1970-01-01T00:00Z; the state keeps   *)
(* clock ticks and Instant(t) gives the hour a tick stands for.           *)
(***************************************************************************)
EXTENDS Integers, Sequences, FiniteSets, TLC

VARIABLES now, employees, orgUnits, mappings, responses, cache,
          sub, views, adm, lastQuery, lastRead, merging, reqs, calc

vars == <<now, employees, orgUnits, mappings, responses, cache,
          sub, views, adm, lastQuery, lastRead, merging, reqs, calc>>

\* what the callers of the dashboard, of mergeResults and of the age and
\* tenure helpers hold
callVars == <<lastQuery, lastRead, merging, reqs, calc>>

(***************************************************************************)
(* Bounds of the model.                                                    *)
(***************************************************************************)
MaxClock == 1

MaxResponses == 2
\* sub-results handed to mergeResults: rows per sub-result, response ids
MaxRows == 2

MaxIds == 3
\* dashboard requests served at once
MaxRequests == 2
\* lineage edges stored before a further edge is refused
MaxEdges == 2

(***************************************************************************)
(* Values of the model.                                                    *)
(***************************************************************************)
NULL == "NULL"

\* valid_to IS NULL
NoTime == 0 - 1

FilterModeHistorical == "HISTORICAL"

FilterModeCurrent == "CURRENT"

FilterModeHybrid == "HYBRID"

MappingTypeRename == "RENAME"

MappingTypeSplit == "SPLIT"

MappingTypeMerge == "MERGE"

QueryLimit == 1000

Ticks == 0..MaxClock

\* hours since the Unix epoch of 2024-03-15T00:00Z, the first tick
BaseHour == 19797 * 24

\* 90 days between two ticks
StepHours == 90 * 24

Instant(t) == BaseHour + t * StepHours

SetOf(s) == {s[i] : i \in DOMAIN s}

RECURSIVE Join(_, _)
Join(items, sep) ==
    IF Len(items) = 0 THEN ""
    ELSE IF Len(items) = 1 THEN items[1]
    ELSE items[1] \o sep \o Join(Tail(items), sep)

(***************************************************************************)
(* Filter values (interface{} in DashboardQuery.Filters): a string or a    *)
(* slice of strings.                                                        *)
(***************************************************************************)
Str(s) == [kind |-> "string", s |-> s, items |-> <<>>]

StrList(l) == [kind |-> "list", s |-> "", items |-> l]

\* fmt.Sprintf("%v", value)
Sprintf(v) ==
    IF v.kind = "string" THEN v.s
    ELSE "[" \o Join(v.items, " ") \o "]"

(***************************************************************************)
(* time.Time: Year() and YearDay() of an instant given in hours.          *)
(***************************************************************************)
DaysFromCivil(y, m, d) ==
    LET yy  == IF m <= 2 THEN y - 1 ELSE y
        era == yy \div 400
        yoe == yy - era * 400
        mp  == IF m > 2 THEN m - 3 ELSE m + 9
        doy == (153 * mp + 2) \div 5 + d - 1
        doe == yoe * 365 + yoe \div 4 - yoe \div 100 + doy
    IN  era * 146097 + doe - 719468

Date(y, m, d) == DaysFromCivil(y, m, d) * 24

Year(h) ==
    LET z   == h \div 24 + 719468
        era == z \div 146097
        doe == z - era * 146097
        yoe == (doe - doe \div 1460 + doe \div 36524 - doe \div 146096) \div 365
        doy == doe - (365 * yoe + yoe \div 4 - yoe \div 100)
        mp  == (5 * doy + 2) \div 153
        m   == IF mp < 10 THEN mp + 3 ELSE mp - 9
    IN  yoe + era * 400 + (IF m <= 2 THEN 1 ELSE 0)

YearDay(h) == h \div 24 - DaysFromCivil(Year(h), 1, 1) + 1

calculateAge(birthDate, asOf) ==
    LET age == Year(asOf) - Year(birthDate)
    IN  IF YearDay(asOf) < YearDay(birthDate) THEN age - 1 ELSE age

\* int(x) truncates toward zero
TruncDiv(a, b) == IF a >= 0 THEN a \div b ELSE 0 - ((0 - a) \div b)

\* a tenure rounded to the nearest tenth
calculateTenureRounding(hireDate, asOf) ==
    TruncDiv(10 * (asOf - hireDate) + 4383, 8766)

\* the tenure in tenths of a year: int(hours / (24 * 365.25) * 10)
calculateTenure(hireDate, asOf) == TruncDiv(10 * (asOf - hireDate), 8766)

(***************************************************************************)
(* The tables: employees (current state), org_units_history,               *)
(* org_unit_mapping and survey_responses.                                  *)
(***************************************************************************)
Grades == {"A", "B"}

EmployeeIDs == {"emp_1", "emp_ghost"}

Tenants == {"tenant_acme"}

AnswerSets == {"q1_engagement=9"}

Employee(id, unit, grade) ==
    [employee_id |-> id, name |-> "John Doe", email |-> "john.doe@acme.com",
     unit_id |-> unit, performance_grade |-> grade, role |-> "Manager",
     birth_date |-> Date(1990, 6, 15), hire_date |-> Date(2019, 6, 1)]

NoEmployee ==
    [employee_id |-> "", name |-> "", email |-> "", unit_id |-> "",
     performance_grade |-> "", role |-> "", birth_date |-> NoTime,
     hire_date |-> NoTime]

OrgUnit(id, name, from, to, path) ==
    [unit_id |-> id, unit_name |-> name, valid_from |-> from, valid_to |-> to,
     is_active |-> (to = NoTime), path |-> path]

NoUnit == OrgUnit("", "", NoTime, NoTime, "")

OrgUnitMapping(src, targets, type, eff) ==
    [source_unit_id |-> src, target_unit_ids |-> targets,
     relationship_type |-> type, effective_date |-> eff]

NoMapping == OrgUnitMapping("", <<>>, "", NoTime)

\* the names the successor units of a split are created with
SplitNames == <<"SEA Sales", "ANZ Sales">>

\* the restructures an administrator may record
Renames == {[unit |-> "unit_123", name |-> "Revenue APAC"]}

Splits == {[unit |-> "unit_123", targets |-> <<"unit_456", "unit_457">>]}

\* the Submit in flight: its position, its arguments, what it has read, the
\* number of stored responses when it was called, and what it returns
IdleSub ==
    [pc |-> "idle", surveyID |-> "", employeeID |-> "", tenantID |-> "",
     answers |-> "", ts |-> NoTime, employee |-> NoEmployee, orgUnit |-> NoUnit,
     stored |-> 0, error |-> "", responseID |-> 0]

IdleAdm == [pc |-> "idle", mapping |-> NoMapping, i |-> 0]

(***************************************************************************)
(* SnapshotService                                                         *)
(***************************************************************************)
\* timestamp.Format(time.RFC3339) and timestamp.Unix(), whole hours
FormatRFC3339(h) == ToString(h) \o "h"

Unix(h) == h * 3600

\* a snapshot whose department is taken from the unit's path
buildCoreSnapshotFromPath(employee, orgUnit, timestamp) ==
    [employee_name     |-> employee.name,
     employee_email    |-> employee.email,
     department        |-> orgUnit.path,
     unit_id           |-> orgUnit.unit_id,
     unit_path         |-> orgUnit.path,
     performance_grade |-> employee.performance_grade,
     role              |-> employee.role,
     age               |-> calculateAge(employee.birth_date, timestamp),
     tenure            |-> calculateTenure(employee.hire_date, timestamp),
     snapshot_version  |-> "1.0",
     snapshot_time     |-> FormatRFC3339(timestamp)]

buildCoreSnapshot(employee, orgUnit, timestamp) ==
    [employee_name     |-> employee.name,
     employee_email    |-> employee.email,
     department        |-> orgUnit.unit_name,
     unit_id           |-> orgUnit.unit_id,
     unit_path         |-> orgUnit.path,
     performance_grade |-> employee.performance_grade,
     role              |-> employee.role,
     age               |-> calculateAge(employee.birth_date, timestamp),
     tenure            |-> calculateTenure(employee.hire_date, timestamp),
     snapshot_version  |-> "1.0",
     snapshot_time     |-> FormatRFC3339(timestamp)]

generateVersionID(employeeID, timestamp) ==
    employeeID \o "_" \o ToString(Unix(timestamp))

\* the clock advances
Tick ==
    /\ now < MaxClock
    /\ now' = now + 1
    /\ UNCHANGED <<employees, orgUnits, mappings, responses, cache, sub, views,
                   adm, callVars>>

(***************************************************************************)
(* PostgresEmployeeRepository.GetByID and PostgresOrgRepository            *)
(* .GetUnitAtTime: the rows a read may return (QueryRow takes the first    *)
(* row of the result; no row is sql.ErrNoRows).                            *)
(***************************************************************************)
GetByID(emps, employeeID) ==
    IF employeeID \in DOMAIN emps THEN {emps[employeeID]} ELSE {}

\* a lookup whose validity interval is closed at both ends
GetUnitAtTimeClosed(units, unitID, asOf) ==
    {r \in units : /\ r.unit_id = unitID
                   /\ r.valid_from <= asOf
                   /\ (r.valid_to = NoTime \/ r.valid_to >= asOf)}

GetUnitAtTime(units, unitID, asOf) ==
    {r \in units : /\ r.unit_id = unitID
                   /\ r.valid_from <= asOf
                   /\ (r.valid_to = NoTime \/ r.valid_to > asOf)}

GetUnitByID(units, unitID) ==
    {r \in units : r.unit_id = unitID /\ r.valid_to = NoTime}

\* the snapshots a capture reading both tables in one instant can build
AtomicViews(emps, units, employeeID, asOf) ==
    {buildCoreSnapshot(e, u, Instant(asOf)) :
        e \in GetByID(emps, employeeID),
        u \in UNION {GetUnitAtTime(units, x.unit_id, asOf) :
                        x \in GetByID(emps, employeeID)}}

\* the views the capture in flight could have read in one instant
Observe(emps, units) ==
    IF sub.pc \in {"getEmployee", "getUnit"}
    THEN views \cup AtomicViews(emps, units, sub.employeeID, sub.ts)
    ELSE views

(***************************************************************************)
(* An update of the employee's row by the HR system (employees holds the   *)
(* current state only).                                                    *)
(***************************************************************************)
EmployeeUpdate(employeeID, unitID, grade) ==
    /\ employeeID \in DOMAIN employees
    /\ GetUnitByID(orgUnits, unitID) # {}
    /\ employees' = [employees EXCEPT ![employeeID].unit_id = unitID,
                                       ![employeeID].performance_grade = grade]
    /\ employees' # employees
    /\ views' = Observe(employees', orgUnits)
    /\ UNCHANGED <<now, orgUnits, mappings, responses, cache, sub, adm,
                   callVars>>

(***************************************************************************)
(* Organizational changes.  A rename is recorded in one transaction (the   *)
(* mapping, the closed version and the new version of the same unit).  A   *)
(* split follows exampleOrgRestructure, statement by statement.            *)
(***************************************************************************)
CloseUnit(units, unitID, eff) ==
    {IF r.unit_id = unitID /\ r.valid_to = NoTime
     THEN [r EXCEPT !.valid_to = eff, !.is_active = FALSE]
     ELSE r : r \in units}

Rename(unitID, newName, eff) ==
    /\ adm.pc = "idle"
    /\ \E old \in GetUnitByID(orgUnits, unitID) :
          /\ old.unit_name # newName
          /\ old.valid_from < eff
          /\ orgUnits' = CloseUnit(orgUnits, unitID, eff)
                            \cup {OrgUnit(unitID, newName, eff, NoTime, old.path)}
    /\ mappings' = Append(mappings,
                          OrgUnitMapping(unitID, <<unitID>>, MappingTypeRename, eff))
    /\ views' = Observe(employees, orgUnits')
    /\ UNCHANGED <<now, employees, responses, cache, sub, adm, callVars>>

\* Step 1: store the mapping
SplitStoreMapping(unitID, targets, eff) ==
    /\ adm.pc = "idle"
    /\ \E old \in GetUnitByID(orgUnits, unitID) : old.valid_from < eff
    /\ \A r \in orgUnits : r.unit_id \notin SetOf(targets)
    /\ mappings' = Append(mappings,
                          OrgUnitMapping(unitID, targets, MappingTypeSplit, eff))
    /\ adm' = [pc |-> "createUnits",
               mapping |-> OrgUnitMapping(unitID, targets, MappingTypeSplit, eff),
               i |-> 1]
    /\ UNCHANGED <<now, employees, orgUnits, responses, cache, sub, views,
                   callVars>>

\* Step 2: create the new org units, one INSERT per target
SplitCreateUnit ==
    /\ adm.pc = "createUnits"
    /\ orgUnits' = orgUnits \cup
          {OrgUnit(adm.mapping.target_unit_ids[adm.i], SplitNames[adm.i],
                   adm.mapping.effective_date, NoTime, SplitNames[adm.i])}
    /\ adm' = IF adm.i < Len(adm.mapping.target_unit_ids)
              THEN [adm EXCEPT !.i = adm.i + 1]
              ELSE [adm EXCEPT !.pc = "closeOld"]
    /\ views' = Observe(employees, orgUnits')
    /\ UNCHANGED <<now, employees, mappings, responses, cache, sub, callVars>>

\* Step 3: close the old unit
SplitCloseOld ==
    /\ adm.pc = "closeOld"
    /\ orgUnits' = CloseUnit(orgUnits, adm.mapping.source_unit_id,
                             adm.mapping.effective_date)
    /\ adm' = IdleAdm
    /\ views' = Observe(employees, orgUnits')
    /\ UNCHANGED <<now, employees, mappings, responses, cache, sub, callVars>>

(***************************************************************************)
(* ResponseService.Submit, with the two reads of CaptureSnapshot and the   *)
(* INSERT of PostgresResponseRepository.Create as separate steps.          *)
(***************************************************************************)
GenerateID(resps) == Len(resps) + 1

\* a response whose version id also depends on the grade read
NewResponseVersionedByGrade(resps, s, submittedAt) ==
    [response_id   |-> GenerateID(resps),
     survey_id     |-> s.surveyID,
     employee_id   |-> s.employeeID,
     submitted_at  |-> submittedAt,
     snapshot_core |-> buildCoreSnapshot(s.employee, s.orgUnit, Instant(s.ts)),
     version_id    |-> generateVersionID(s.employeeID, Instant(s.ts))
                         \o "_" \o s.employee.performance_grade,
     answers       |-> "null",
     tenant_id     |-> s.tenantID]

\* the row the INSERT stores: Submit never sets Answers, and a nil
\* json.RawMessage is marshalled as null
NewResponse(resps, s, submittedAt) ==
    [response_id   |-> GenerateID(resps),
     survey_id     |-> s.surveyID,
     employee_id   |-> s.employeeID,
     submitted_at  |-> submittedAt,
     snapshot_core |-> buildCoreSnapshot(s.employee, s.orgUnit, Instant(s.ts)),
     version_id    |-> generateVersionID(s.employeeID, Instant(s.ts)),
     answers       |-> "null",
     tenant_id     |-> s.tenantID]

\* an INSERT that also rewrites the snapshots already stored
CreateRewritingSnapshots(resps, response) ==
    Append([i \in DOMAIN resps |->
               [resps[i] EXCEPT !.snapshot_core = response.snapshot_core]],
           response)

Create(resps, response) == Append(resps, response)

SubmitBegin(surveyID, employeeID, tenantID, answers) ==
    /\ sub.pc = "idle"
    /\ Len(responses) < MaxResponses
    /\ sub' = [IdleSub EXCEPT !.pc = "getEmployee", !.surveyID = surveyID,
                              !.employeeID = employeeID, !.tenantID = tenantID,
                              !.answers = answers, !.ts = now,
                              !.stored = Len(responses)]
    /\ views' = AtomicViews(employees, orgUnits, employeeID, now)
    /\ UNCHANGED <<now, employees, orgUnits, mappings, responses, cache, adm,
                   callVars>>

\* employee, err := s.employeeRepo.GetByID(ctx, employeeID)
SubmitGetEmployee ==
    /\ sub.pc = "getEmployee"
    /\ \/ \E e \in GetByID(employees, sub.employeeID) :
             sub' = [sub EXCEPT !.pc = "getUnit", !.employee = e]
       \/ /\ GetByID(employees, sub.employeeID) = {}
          /\ sub' = [sub EXCEPT !.pc = "done", !.error = "failed to get employee"]
    /\ UNCHANGED <<now, employees, orgUnits, mappings, responses, cache, views,
                   adm, callVars>>

\* a capture that ignores the error of the org-unit read
SubmitGetUnitIgnoringError ==
    /\ sub.pc = "getUnit"
    /\ \/ \E u \in GetUnitAtTime(orgUnits, sub.employee.unit_id, sub.ts) :
             sub' = [sub EXCEPT !.pc = "create", !.orgUnit = u]
       \/ /\ GetUnitAtTime(orgUnits, sub.employee.unit_id, sub.ts) = {}
          /\ sub' = [sub EXCEPT !.pc = "create"]
    /\ UNCHANGED <<now, employees, orgUnits, mappings, responses, cache, views,
                   adm, callVars>>

\* orgUnit, err := s.orgRepo.GetUnitAtTime(ctx, employee.UnitID, timestamp)
SubmitGetUnit ==
    /\ sub.pc = "getUnit"
    /\ \/ \E u \in GetUnitAtTime(orgUnits, sub.employee.unit_id, sub.ts) :
             sub' = [sub EXCEPT !.pc = "create", !.orgUnit = u]
       \/ /\ GetUnitAtTime(orgUnits, sub.employee.unit_id, sub.ts) = {}
          /\ sub' = [sub EXCEPT !.pc = "done", !.error = "failed to get org unit"]
    /\ UNCHANGED <<now, employees, orgUnits, mappings, responses, cache, views,
                   adm, callVars>>

\* err = s.responseRepo.Create(ctx, response): the INSERT commits or fails
SubmitCreate ==
    /\ sub.pc = "create"
    /\ \/ /\ responses' = Create(responses, NewResponse(responses, sub, now))
          /\ sub' = [sub EXCEPT !.pc = "done", !.responseID = GenerateID(responses)]
       \/ /\ sub' = [sub EXCEPT !.pc = "done", !.error = "failed to create response"]
          /\ UNCHANGED responses
    /\ UNCHANGED <<now, employees, orgUnits, mappings, cache, views, adm, callVars>>

\* the handler writes the HTTP response and the request ends
SubmitRespond ==
    /\ sub.pc = "done"
    /\ sub' = IdleSub
    /\ views' = {}
    /\ UNCHANGED <<now, employees, orgUnits, mappings, responses, cache, adm,
                   callVars>>

(***************************************************************************)
(* PostgresResponseRepository.Query and GetByID.  A DashboardQuery is      *)
(* [filters, filterMode, from, to, tenantID]; filters maps field names to  *)
(* filter values.  An io gives what the database does for one SELECT:      *)
(* whether it succeeds and how it orders rows of equal submitted_at.       *)
(***************************************************************************)
\* snapshot_core->>field: the value as text, NULL for a missing key
TenthsText(n) ==
    IF n % 10 = 0 THEN ToString(n \div 10)
    ELSE ToString(n \div 10) \o "." \o ToString(n % 10)

JsonText(core, field) ==
    IF field \notin DOMAIN core THEN NULL
    ELSE IF field = "age" THEN ToString(core[field])
    ELSE IF field = "tenure" THEN TenthsText(core[field])
    ELSE core[field]

\* the WHERE clause built from the query
Matches(row, q) ==
    /\ row.tenant_id = q.tenantID
    /\ q.from <= row.submitted_at
    /\ row.submitted_at <= q.to
    /\ \A field \in DOMAIN q.filters :
          JsonText(row.snapshot_core, field) = Sprintf(q.filters[field])

Position(ord, i) == CHOOSE k \in DOMAIN ord : ord[k] = i

\* ORDER BY submitted_at DESC over the row numbers in idx
RECURSIVE OrderBySubmittedAtDesc(_, _, _)
OrderBySubmittedAtDesc(resps, idx, ord) ==
    IF idx = {} THEN <<>>
    ELSE LET first == CHOOSE i \in idx : \A j \in idx \ {i} :
                        \/ resps[i].submitted_at > resps[j].submitted_at
                        \/ /\ resps[i].submitted_at = resps[j].submitted_at
                           /\ Position(ord, i) < Position(ord, j)
         IN  <<resps[first]>> \o OrderBySubmittedAtDesc(resps, idx \ {first}, ord)

Limit(rows, n) == IF Len(rows) <= n THEN rows ELSE SubSeq(rows, 1, n)

RepoQuery(resps, q, io) ==
    IF ~io.ok THEN [rows |-> <<>>, err |-> "failed to query responses"]
    ELSE [rows |-> Limit(OrderBySubmittedAtDesc(
                             resps, {i \in DOMAIN resps : Matches(resps[i], q)}, io.ord),
                         QueryLimit),
          err |-> ""]

RepoGetByID(resps, responseID) ==
    {resps[i] : i \in {j \in DOMAIN resps : resps[j].response_id = responseID}}

(***************************************************************************)
(* OrgMapper and DashboardService.  Each operator gives the outcome of a   *)
(* call: the DashboardResult or error, the cache and the caller's Filters  *)
(* map after the call (a Go map is shared with the caller), the queries    *)
(* run against the response store and the names given to the resolver.     *)
(***************************************************************************)
NoProvenance == [present |-> FALSE, historical_count |-> 0, current_count |-> 0]

DashboardResult(rows, provenance) ==
    [responses |-> rows, count |-> Len(rows), provenance |-> provenance]

NoResult == DashboardResult(<<>>, NoProvenance)

Outcome(result, err, c, filters, exec, lookups, resolved) ==
    [result |-> result, err |-> err, cache |-> c, filters |-> filters,
     exec |-> exec, lookups |-> lookups, resolved |-> resolved]

\* a resolver that returns its result but caches the empty list
MapCurrentToHistoricalCachingNothing(c, currentUnitName) ==
    IF currentUnitName \in DOMAIN c
    THEN [result |-> c[currentUnitName], err |-> "", cache |-> c]
    ELSE [result |-> <<currentUnitName>>, err |-> "",
          cache |-> [n \in DOMAIN c \cup {currentUnitName} |->
                        IF n = currentUnitName THEN <<>> ELSE c[n]]]

MapCurrentToHistorical(c, currentUnitName) ==
    IF currentUnitName \in DOMAIN c
    THEN [result |-> c[currentUnitName], err |-> "", cache |-> c]
    ELSE [result |-> <<currentUnitName>>, err |-> "",
          cache |-> [n \in DOMAIN c \cup {currentUnitName} |->
                        IF n = currentUnitName THEN <<currentUnitName>> ELSE c[n]]]

\* a historical query that resolves the department as the current query does
queryHistoricalResolving(resps, c, query, io) ==
    LET translate == /\ "department" \in DOMAIN query.filters
                     /\ query.filters["department"].kind = "string"
        m == MapCurrentToHistorical(c, query.filters["department"].s)
        r == RepoQuery(resps, query, io)
    IN  IF translate
        THEN Outcome(DashboardResult(r.rows, NoProvenance), r.err, m.cache,
                     query.filters, <<query>>, <<query.filters["department"].s>>,
                     m.result)
        ELSE Outcome(DashboardResult(r.rows, NoProvenance), r.err, c, query.filters,
                     <<query>>, <<>>, <<>>)

queryHistorical(resps, c, query, io) ==
    LET r == RepoQuery(resps, query, io)
    IN  IF r.err # ""
        THEN Outcome(NoResult, r.err, c, query.filters, <<query>>, <<>>, <<>>)
        ELSE Outcome(DashboardResult(r.rows, NoProvenance), "", c, query.filters,
                     <<query>>, <<>>, <<>>)

\* a translation that keeps nothing but the unit_id predicate
ReplaceAllFilters(filters, historicalUnitIDs) ==
    [k \in {"unit_id"} |-> StrList(historicalUnitIDs)]

\* delete(query.Filters, "department"); query.Filters["unit_id"] = historicalUnitIDs
ReplaceDepartment(filters, historicalUnitIDs) ==
    [k \in (DOMAIN filters \ {"department"}) \cup {"unit_id"} |->
        IF k = "unit_id" THEN StrList(historicalUnitIDs) ELSE filters[k]]

queryCurrent(resps, c, query, io) ==
    LET translate == /\ "department" \in DOMAIN query.filters
                     /\ query.filters["department"].kind = "string"
        m == MapCurrentToHistorical(c, query.filters["department"].s)
        filters == IF translate /\ m.err = ""
                   THEN ReplaceDepartment(query.filters, m.result)
                   ELSE query.filters
        c2 == IF translate THEN m.cache ELSE c
        lookups == IF translate THEN <<query.filters["department"].s>> ELSE <<>>
        resolved == IF translate THEN m.result ELSE <<>>
        q2 == [query EXCEPT !.filters = filters]
        r == RepoQuery(resps, q2, io)
    IN  IF translate /\ m.err # ""
        THEN Outcome(NoResult, "failed to map current to historical", c2, filters,
                     <<>>, lookups, resolved)
        ELSE IF r.err # ""
        THEN Outcome(NoResult, r.err, c2, filters, <<q2>>, lookups, resolved)
        ELSE Outcome(DashboardResult(r.rows, NoProvenance), "", c2, filters,
                     <<q2>>, lookups, resolved)

RECURSIVE AppendUnseen(_, _)
\* the loop of mergeResults: rows appended to merged unless their id is seen
AppendUnseen(merged, rows) ==
    IF rows = <<>> THEN merged
    ELSE IF \E i \in DOMAIN merged : merged[i].response_id = Head(rows).response_id
    THEN AppendUnseen(merged, Tail(rows))
    ELSE AppendUnseen(Append(merged, Head(rows)), Tail(rows))

\* a merge that appends both sub-results without looking at the identifiers
mergeResultsKeepingAll(historical, current) ==
    DashboardResult(historical.responses \o current.responses,
                    [present |-> TRUE, historical_count |-> historical.count,
                     current_count |-> current.count])

\* a merge that attaches the two counts the wrong way round
mergeResultsSwappingCounts(historical, current) ==
    DashboardResult(
        AppendUnseen(AppendUnseen(<<>>, historical.responses), current.responses),
        [present |-> TRUE, historical_count |-> current.count,
         current_count |-> historical.count])

mergeResults(historical, current) ==
    DashboardResult(
        AppendUnseen(AppendUnseen(<<>>, historical.responses), current.responses),
        [present |-> TRUE, historical_count |-> historical.count,
         current_count |-> current.count])

\* a hybrid query that answers with the historical rows when the current
\* sub-query fails
queryHybridKeepingHistorical(resps, c, query, io1, io2) ==
    LET h == queryHistorical(resps, c, query, io1)
        cur == queryCurrent(resps, h.cache, [query EXCEPT !.filters = h.filters], io2)
    IN  IF h.err # "" THEN h
        ELSE IF cur.err # ""
        THEN Outcome(h.result, "", cur.cache, cur.filters,
                     h.exec \o cur.exec, cur.lookups, cur.resolved)
        ELSE Outcome(mergeResults(h.result, cur.result), "", cur.cache, cur.filters,
                     h.exec \o cur.exec, cur.lookups, cur.resolved)

\* a hybrid query that runs the current sub-query first and hands the Filters
\* it translated to the historical sub-query
queryHybridCurrentFirst(resps, c, query, io1, io2) ==
    LET cur == queryCurrent(resps, c, query, io2)
        h == queryHistorical(resps, cur.cache, [query EXCEPT !.filters = cur.filters],
                             io1)
    IN  IF cur.err # "" THEN cur
        ELSE IF h.err # ""
        THEN Outcome(NoResult, h.err, cur.cache, cur.filters,
                     h.exec \o cur.exec, cur.lookups, cur.resolved)
        ELSE Outcome(mergeResults(h.result, cur.result), "", cur.cache, cur.filters,
                     h.exec \o cur.exec, cur.lookups, cur.resolved)

queryHybrid(resps, c, query, io1, io2) ==
    LET h == queryHistorical(resps, c, query, io1)
        cur == queryCurrent(resps, h.cache, [query EXCEPT !.filters = h.filters], io2)
    IN  IF h.err # "" THEN h
        ELSE IF cur.err # ""
        THEN Outcome(NoResult, cur.err, cur.cache, cur.filters,
                     h.exec \o cur.exec, cur.lookups, cur.resolved)
        ELSE Outcome(mergeResults(h.result, cur.result), "", cur.cache, cur.filters,
                     h.exec \o cur.exec, cur.lookups, cur.resolved)

\* a dispatch that treats an unknown mode as HISTORICAL
DashboardServiceQueryDefaulting(resps, c, query, io1, io2) ==
    CASE query.filterMode = FilterModeCurrent -> queryCurrent(resps, c, query, io1)
      [] query.filterMode = FilterModeHybrid -> queryHybrid(resps, c, query, io1, io2)
      [] OTHER -> queryHistorical(resps, c, query, io1)

DashboardServiceQuery(resps, c, query, io1, io2) ==
    CASE query.filterMode = FilterModeHistorical -> queryHistorical(resps, c, query, io1)
      [] query.filterMode = FilterModeCurrent -> queryCurrent(resps, c, query, io1)
      [] query.filterMode = FilterModeHybrid -> queryHybrid(resps, c, query, io1, io2)
      [] OTHER -> Outcome(NoResult, "invalid filter mode", c, query.filters,
                          <<>>, <<>>, <<>>)

(***************************************************************************)
(* The queries a dashboard user may send.                                  *)
(***************************************************************************)
FilterModes == {FilterModeHistorical, FilterModeCurrent, FilterModeHybrid, "LATEST"}

Optional(key, values) ==
    {[k \in {} |-> Str("")]} \cup {[k \in {key} |-> Str(v)] : v \in values}

Merge(f, g) == [k \in DOMAIN f \cup DOMAIN g |-> IF k \in DOMAIN f THEN f[k] ELSE g[k]]

DashboardQuery(filters, mode, from, to, tenant) ==
    [filters |-> filters, filterMode |-> mode, from |-> from, to |-> to,
     tenantID |-> tenant]

Orders(resps) == Permutations(DOMAIN resps)

Ios(resps) == [ok : BOOLEAN, ord : Orders(resps)]

NoIo(resps) == [ok |-> TRUE, ord |-> [i \in DOMAIN resps |-> i]]

NoQuery ==
    [query |-> DashboardQuery([k \in {} |-> Str("")], "", 0, 0, ""),
     cacheBefore |-> [n \in {} |-> <<>>],
     oks |-> <<TRUE, TRUE>>,
     out |-> Outcome(NoResult, "", [n \in {} |-> <<>>], [k \in {} |-> Str("")],
                     <<>>, <<>>, <<>>)]

\* nothing is in flight: no Submit, no restructure, no dashboard request
Quiet ==
    /\ sub.pc = "idle"
    /\ adm.pc = "idle"
    /\ lastQuery = NoQuery
    /\ lastRead = {}

\* the dashboard handler calls DashboardService.Query
Query(query, io1, io2) ==
    /\ Quiet
    /\ LET o == DashboardServiceQuery(responses, cache, query, io1, io2)
       IN  /\ cache' = o.cache
           /\ lastQuery' = [query |-> query, cacheBefore |-> cache,
                           oks |-> <<io1.ok, io2.ok>>, out |-> o]
    /\ UNCHANGED <<now, employees, orgUnits, mappings, responses, sub, views, adm,
                   lastRead, merging, reqs, calc>>

\* the handler encodes the result (or the error) and the request ends
QueryRespond ==
    /\ lastQuery # NoQuery
    /\ lastQuery' = NoQuery
    /\ UNCHANGED <<now, employees, orgUnits, mappings, responses, cache, sub, views,
                   adm, lastRead, merging, reqs, calc>>

\* a caller reads a response back with ResponseRepository.GetByID
GetResponse(responseID) ==
    /\ Quiet
    /\ RepoGetByID(responses, responseID) # {}
    /\ lastRead' = RepoGetByID(responses, responseID)
    /\ UNCHANGED <<now, employees, orgUnits, mappings, responses, cache, sub, views,
                   adm, lastQuery, merging, reqs, calc>>

GetResponseReturn ==
    /\ lastRead # {}
    /\ lastRead' = {}
    /\ UNCHANGED <<now, employees, orgUnits, mappings, responses, cache, sub, views,
                   adm, lastQuery, merging, reqs, calc>>

\* the dashboard requests served in parallel: where each one is in
\* queryCurrent and MapCurrentToHistorical, and what it holds
Requests == 1..MaxRequests

IdleReq == [pc |-> "idle", query |-> NoQuery.query, historical |-> NoResult,
            resolved |-> <<>>, hit |-> FALSE, result |-> NoResult, err |-> ""]

\* a date as the helpers' callers give it, and what the helpers returned
NoDate == [y |-> 0, m |-> 0, d |-> 0, h |-> 0]

NoCalc == [from |-> NoDate, asOf |-> NoDate, age |-> 0, tenure |-> 0, done |-> ""]

NoMerge == [historical |-> NoResult, current |-> NoResult, merged |-> NoResult,
            done |-> FALSE]

Init ==
    /\ now = 0
    /\ employees = [e \in {"emp_1"} |-> Employee(e, "unit_123", "A")]
    /\ orgUnits = {OrgUnit("unit_123", "Sales APAC", 0, NoTime, "root.apac.sales")}
    /\ mappings = <<>>
    /\ responses = <<>>
    /\ cache = [n \in {} |-> <<>>]
    /\ sub = IdleSub
    /\ views = {}
    /\ adm = IdleAdm
    /\ lastQuery = NoQuery
    /\ lastRead = {}
    /\ merging = NoMerge
    /\ reqs = [r \in Requests |-> IdleReq]
    /\ calc = NoCalc

(***************************************************************************)
(* Whole operations, run from call to return with nothing in between.      *)
(***************************************************************************)
\* exampleOrgRestructure: the mapping, the new units and the closed unit
exampleOrgRestructure(unitID, targets, eff) ==
    /\ Quiet
    /\ \E old \in GetUnitByID(orgUnits, unitID) : old.valid_from < eff
    /\ \A r \in orgUnits : r.unit_id \notin SetOf(targets)
    /\ mappings' = Append(mappings,
                          OrgUnitMapping(unitID, targets, MappingTypeSplit, eff))
    /\ orgUnits' = CloseUnit(
                      orgUnits \cup {OrgUnit(targets[i], SplitNames[i], eff, NoTime,
                                             SplitNames[i]) : i \in DOMAIN targets},
                      unitID, eff)
    /\ UNCHANGED <<now, employees, responses, cache, sub, views, adm, callVars>>

\* ResponseService.Submit; the request ends with the response written
Submit(surveyID, employeeID, tenantID, answers) ==
    /\ Quiet
    /\ Len(responses) < MaxResponses
    /\ LET s0 == [IdleSub EXCEPT !.surveyID = surveyID, !.employeeID = employeeID,
                                 !.tenantID = tenantID, !.answers = answers,
                                 !.ts = now, !.stored = Len(responses)]
       IN  \E e \in GetByID(employees, employeeID) :
           \E u \in GetUnitAtTime(orgUnits, e.unit_id, now) :
               responses' = Create(responses,
                                   NewResponse(responses,
                                               [s0 EXCEPT !.employee = e, !.orgUnit = u],
                                               now))
    /\ UNCHANGED <<now, employees, orgUnits, mappings, cache, sub, views, adm,
                   callVars>>

Next ==
    \/ Tick
    \/ \E e \in EmployeeIDs, u \in {"unit_123", "unit_456", "unit_457"}, g \in Grades :
          EmployeeUpdate(e, u, g)
    \/ \E r \in Renames, eff \in Ticks : Rename(r.unit, r.name, eff)
    \/ \E sp \in Splits, eff \in Ticks : SplitStoreMapping(sp.unit, sp.targets, eff)
    \/ SplitCreateUnit
    \/ SplitCloseOld
    \/ \E e \in EmployeeIDs, t \in Tenants, a \in AnswerSets :
          SubmitBegin("survey_001", e, t, a)
    \/ SubmitGetEmployee
    \/ SubmitGetUnit
    \/ SubmitCreate
    \/ SubmitRespond

Spec == Init /\ [][Next]_vars

\* the same operations when the employees table holds a row whose hire_date
\* may lie ahead of the clock (a hire recorded before the first working day)
HireDates == {Date(2024, 5, 14), Date(2024, 9, 1)}

InitHire ==
    /\ now = 0
    /\ \E hired \in HireDates :
          employees = [e \in {"emp_1"} |->
                          [Employee(e, "unit_123", "A") EXCEPT !.hire_date = hired]]
    /\ orgUnits = {OrgUnit("unit_123", "Sales APAC", 0, NoTime, "root.apac.sales")}
    /\ mappings = <<>>
    /\ responses = <<>>
    /\ cache = [n \in {} |-> <<>>]
    /\ sub = IdleSub
    /\ views = {}
    /\ adm = IdleAdm
    /\ lastQuery = NoQuery
    /\ lastRead = {}
    /\ merging = NoMerge
    /\ reqs = [r \in Requests |-> IdleReq]
    /\ calc = NoCalc

SpecHire == InitHire /\ [][Next]_vars

\* the queries sent in a mode: a department is looked up by its current name
\* in CURRENT and HYBRID mode and by its recorded name in HISTORICAL mode
QueriesIn(mode, from, to) ==
    LET departments == IF mode \in {FilterModeCurrent, FilterModeHybrid}
                       THEN {"Revenue APAC", "SEA Sales", "unit_123"}
                       ELSE {"Sales APAC", "Revenue APAC"}
        filterMaps == {Merge(d, g) : d \in Optional("department", departments),
                                     g \in Optional("performance_grade", {"A"})}
                      \cup {Merge(d, u) : d \in Optional("department", departments),
                                          u \in Optional("unit_id", {"unit_456"})}
    IN  {DashboardQuery(f, mode, from, to, t) : f \in filterMaps, t \in Tenants}

QueriesOf(mode) == QueriesIn(mode, 0, MaxClock)

NextQuery ==
    \/ Quiet /\ Tick
    \/ \E e \in EmployeeIDs, u \in {"unit_123", "unit_456"}, g \in Grades :
          Quiet /\ EmployeeUpdate(e, u, g)
    \/ \E r \in Renames, eff \in Ticks : Quiet /\ Rename(r.unit, r.name, eff)
    \/ \E sp \in Splits, eff \in Ticks : exampleOrgRestructure(sp.unit, sp.targets, eff)
    \/ \E e \in EmployeeIDs, t \in Tenants, a \in AnswerSets :
          Submit("survey_001", e, t, a)
    \/ \E m \in FilterModes : \E q \in QueriesOf(m) : \E ord1, ord2 \in Orders(responses) :
          /\ (m # FilterModeHybrid => ord2 = NoIo(responses).ord)
          /\ Query(q, [ok |-> TRUE, ord |-> ord1], [ok |-> TRUE, ord |-> ord2])
    \/ QueryRespond
    \/ \E id \in 1..MaxResponses : GetResponse(id)
    \/ GetResponseReturn

SpecQuery == Init /\ [][NextQuery]_vars

(***************************************************************************)
(* The serial client again, with the requests that go wrong: a SELECT the  *)
(* database fails, a time range with From after To, an unknown mode.       *)
(***************************************************************************)
\* edges that merge a successor of unit_123 back into unit_123
MergesBack == {[source |-> "unit_456", target |-> "unit_123"]}

\* INSERT INTO org_unit_mapping: the table takes any edge between units
StoreMapping(source, target, eff) ==
    /\ Quiet
    /\ Len(mappings) < MaxEdges
    /\ GetUnitByID(orgUnits, source) # {}
    /\ mappings' = Append(mappings,
                          OrgUnitMapping(source, <<target>>, MappingTypeMerge, eff))
    /\ UNCHANGED <<now, employees, orgUnits, responses, cache, sub, views, adm,
                   callVars>>

NextFault ==
    \/ Quiet /\ Tick
    \/ \E mb \in MergesBack, eff \in Ticks : StoreMapping(mb.source, mb.target, eff)
    \/ \E sp \in Splits, eff \in Ticks : exampleOrgRestructure(sp.unit, sp.targets, eff)
    \/ \E e \in EmployeeIDs, t \in Tenants, a \in AnswerSets :
          Submit("survey_001", e, t, a)
    \/ \E m \in FilterModes, from, to \in Ticks :
       \E q \in QueriesIn(m, from, to) : \E ok1, ok2 \in BOOLEAN :
          /\ (m # FilterModeHybrid \/ ~ok1) => ok2
          /\ Query(q, [NoIo(responses) EXCEPT !.ok = ok1],
                       [NoIo(responses) EXCEPT !.ok = ok2])
    \/ QueryRespond

SpecFault == Init /\ [][NextFault]_vars

(***************************************************************************)
(* Dashboard requests served in parallel by the one DashboardService: net/ *)
(* http runs each handler in its own goroutine.  A request goes through    *)
(* queryHybrid's historical query, then the map read and the map write of  *)
(* MapCurrentToHistorical, each of which takes time, then queryCurrent's   *)
(* query.  The OrgMapper takes no lock around its map.                     *)
(***************************************************************************)
CacheQueries ==
    {DashboardQuery([k \in {"department"} |-> Str(d)], m, 0, MaxClock, t) :
        d \in {"Revenue APAC", "SEA Sales"},
        m \in {FilterModeCurrent, FilterModeHybrid}, t \in Tenants}

Others(r) == Requests \ {r}

\* if dept, ok := query.Filters["department"].(string); ok
Translates(query) ==
    /\ "department" \in DOMAIN query.filters
    /\ query.filters["department"].kind = "string"

\* a map write by one goroutine during a map access by another
MapRace ==
    \E r \in Requests : \E o \in Others(r) :
        reqs[r].pc = "writing" /\ reqs[o].pc \in {"reading", "writing"}

ReqVars == <<now, employees, orgUnits, mappings, responses, sub, views, adm,
             lastQuery, lastRead, merging, calc>>

\* the handler decodes the query and calls dashboardSvc.Query
ReqBegin(r, query) ==
    /\ reqs[r].pc = "idle"
    /\ reqs' = [reqs EXCEPT ![r] =
                  [IdleReq EXCEPT !.query = query,
                                  !.pc = IF query.filterMode \in {FilterModeHybrid,
                                                                  FilterModeHistorical}
                                         THEN "historical"
                                         ELSE IF Translates(query) THEN "resolve"
                                         ELSE "select"]]
    /\ UNCHANGED <<cache, ReqVars>>

\* historicalResult, err := s.queryHistorical(ctx, query)
ReqHistorical(r) ==
    /\ reqs[r].pc = "historical"
    /\ \E ord \in Orders(responses) :
          LET h == queryHistorical(responses, cache, reqs[r].query,
                                   [ok |-> TRUE, ord |-> ord])
          IN  reqs' = IF reqs[r].query.filterMode = FilterModeHistorical
                      THEN [reqs EXCEPT ![r].result = h.result, ![r].pc = "done"]
                      ELSE [reqs EXCEPT ![r].historical = h.result,
                                        ![r].pc = IF Translates(reqs[r].query)
                                                  THEN "resolve" ELSE "select"]
    /\ UNCHANGED <<cache, ReqVars>>

\* cached, ok := m.cache[currentUnitName] starts
ReqReadBegin(r) ==
    /\ reqs[r].pc = "resolve"
    /\ reqs' = [reqs EXCEPT ![r].pc = "reading"]
    /\ UNCHANGED <<cache, ReqVars>>

\* the map read ends; during another goroutine's write of the same key it
\* finds the old map or the new one
ReqReadEnd(r) ==
    /\ reqs[r].pc = "reading"
    /\ LET name == reqs[r].query.filters["department"].s
           written == {reqs[o].resolved :
                         o \in {x \in Others(r) :
                                  /\ reqs[x].pc = "writing"
                                  /\ reqs[x].query.filters["department"].s = name}}
       IN  \/ /\ name \in DOMAIN cache
              /\ reqs' = [reqs EXCEPT ![r].resolved = cache[name], ![r].hit = TRUE,
                                      ![r].pc = "select"]
           \/ \E w \in written :
                 reqs' = [reqs EXCEPT ![r].resolved = w, ![r].hit = TRUE,
                                      ![r].pc = "select"]
           \/ /\ name \notin DOMAIN cache
              /\ reqs' = [reqs EXCEPT ![r].pc = "compute"]
    /\ UNCHANGED <<cache, ReqVars>>

\* result := []string{currentUnitName}; m.cache[currentUnitName] = result starts
ReqWriteBegin(r) ==
    /\ reqs[r].pc = "compute"
    /\ reqs' = [reqs EXCEPT ![r].resolved = <<reqs[r].query.filters["department"].s>>,
                            ![r].pc = "writing"]
    /\ UNCHANGED <<cache, ReqVars>>

\* the map write ends
ReqWriteEnd(r) ==
    /\ reqs[r].pc = "writing"
    /\ LET name == reqs[r].query.filters["department"].s
       IN  cache' = [n \in DOMAIN cache \cup {name} |->
                        IF n = name THEN reqs[r].resolved ELSE cache[n]]
    /\ reqs' = [reqs EXCEPT ![r].pc = "select"]
    /\ UNCHANGED ReqVars

\* queryCurrent replaces the filter and queries the store; queryHybrid merges
ReqSelect(r) ==
    /\ reqs[r].pc = "select"
    /\ \E ord \in Orders(responses) :
          LET q == reqs[r].query
              q2 == IF Translates(q)
                    THEN [q EXCEPT !.filters =
                                      ReplaceDepartment(q.filters, reqs[r].resolved)]
                    ELSE q
              rows == RepoQuery(responses, q2, [ok |-> TRUE, ord |-> ord]).rows
              current == DashboardResult(rows, NoProvenance)
          IN  reqs' = [reqs EXCEPT
                         ![r].result = IF q.filterMode = FilterModeHybrid
                                       THEN mergeResults(reqs[r].historical, current)
                                       ELSE current,
                         ![r].pc = "done"]
    /\ UNCHANGED <<cache, ReqVars>>

\* the handler encodes the result and the request ends
ReqRespond(r) ==
    /\ reqs[r].pc = "done"
    /\ reqs' = [reqs EXCEPT ![r] = IdleReq]
    /\ UNCHANGED <<cache, ReqVars>>

\* the Go runtime finds the map written during another access and ends the
\* process: fatal error: concurrent map read and map write / map writes
ReqFatal ==
    /\ MapRace
    /\ reqs' = [r \in Requests |-> [reqs[r] EXCEPT !.pc = "crashed"]]
    /\ UNCHANGED <<cache, ReqVars>>

NextCache ==
    \/ \E e \in EmployeeIDs, t \in Tenants, a \in AnswerSets :
          Submit("survey_001", e, t, a)
    \/ \E r \in Requests, q \in CacheQueries : ReqBegin(r, q)
    \/ \E r \in Requests : ReqHistorical(r)
    \/ \E r \in Requests : ReqReadBegin(r)
    \/ \E r \in Requests : ReqReadEnd(r)
    \/ \E r \in Requests : ReqWriteBegin(r)
    \/ \E r \in Requests : ReqWriteEnd(r)
    \/ \E r \in Requests : ReqSelect(r)
    \/ \E r \in Requests : ReqRespond(r)
    \/ ReqFatal

SpecCache == Init /\ [][NextCache]_vars

\* dashboard requests served while responses keep arriving: the queries carry
\* no department filter, so that no request touches the resolver cache
StreamTenants == Tenants \cup {"tenant_globex"}

StreamQueries ==
    {DashboardQuery(f, m, from, to, t) :
        f \in Optional("performance_grade", {"A"}),
        m \in {FilterModeHistorical, FilterModeCurrent, FilterModeHybrid},
        from \in Ticks, to \in {MaxClock}, t \in Tenants}

NextStream ==
    \/ Quiet /\ Tick
    \/ \E e \in EmployeeIDs, t \in StreamTenants, a \in AnswerSets :
          Submit("survey_001", e, t, a)
    \/ \E r \in Requests, q \in StreamQueries : ReqBegin(r, q)
    \/ \E r \in Requests : ReqHistorical(r)
    \/ \E r \in Requests : ReqSelect(r)
    \/ \E r \in Requests : ReqRespond(r)

SpecStream == Init /\ [][NextStream]_vars

(***************************************************************************)
(* calculateAge and calculateTenure on their own: a birth or hire date, a  *)
(* later instant, and one call of either helper.                           *)
(***************************************************************************)
\* time.Date(y, m, d, h, 0, 0, 0, time.UTC)
TimeOf(date) == Date(date.y, date.m, date.d) + date.h

FromDates ==
    {[y |-> 1990, m |-> 6, d |-> 15, h |-> 0], [y |-> 1990, m |-> 1, d |-> 15, h |-> 0],
     [y |-> 2000, m |-> 2, d |-> 29, h |-> 0], [y |-> 2000, m |-> 3, d |-> 1, h |-> 0],
     [y |-> 2019, m |-> 6, d |-> 1, h |-> 0]}

AsOfDates ==
    [y : {2023, 2024}, m : {2, 3, 6, 7}, d : {1, 14, 15, 28}, h : {0, 18}]
      \cup {[y |-> 2024, m |-> 2, d |-> 29, h |-> 0],
            [y |-> 2019, m |-> 11, d |-> 30, h |-> 14],
            [y |-> 2019, m |-> 11, d |-> 30, h |-> 15]}

InitCalc ==
    /\ now = 0
    /\ employees = [e \in {"emp_1"} |-> Employee(e, "unit_123", "A")]
    /\ orgUnits = {OrgUnit("unit_123", "Sales APAC", 0, NoTime, "root.apac.sales")}
    /\ mappings = <<>>
    /\ responses = <<>>
    /\ cache = [n \in {} |-> <<>>]
    /\ sub = IdleSub
    /\ views = {}
    /\ adm = IdleAdm
    /\ lastQuery = NoQuery
    /\ lastRead = {}
    /\ merging = NoMerge
    /\ reqs = [r \in Requests |-> IdleReq]
    /\ calc \in {c \in [from : FromDates, asOf : AsOfDates, age : {0}, tenure : {0},
                        done : {""}] : TimeOf(c.from) <= TimeOf(c.asOf)}

CalcVars == <<now, employees, orgUnits, mappings, responses, cache, sub, views, adm,
              lastQuery, lastRead, merging, reqs>>

\* age := calculateAge(birthDate, asOf)
CalculateAge ==
    /\ calc.done = ""
    /\ calc' = [calc EXCEPT !.age = calculateAge(TimeOf(calc.from), TimeOf(calc.asOf)),
                            !.done = "age"]
    /\ UNCHANGED CalcVars

\* tenure := calculateTenure(hireDate, asOf)
CalculateTenure ==
    /\ calc.done = ""
    /\ calc' = [calc EXCEPT
                  !.tenure = calculateTenure(TimeOf(calc.from), TimeOf(calc.asOf)),
                  !.done = "tenure"]
    /\ UNCHANGED CalcVars

NextCalc == CalculateAge \/ CalculateTenure

SpecCalc == InitCalc /\ [][NextCalc]_vars

(***************************************************************************)
(* mergeResults on its own: any two sub-results, merged once.              *)
(***************************************************************************)
RECURSIVE SeqsUpTo(_, _)
SeqsUpTo(S, n) ==
    IF n = 0 THEN {<<>>}
    ELSE SeqsUpTo(S, n - 1) \cup
         {Append(q, x) : q \in SeqsUpTo(S, n - 1), x \in S}

\* a response row as a sub-query returns it
Row(id) == [response_id |-> id, survey_id |-> "survey_001"]

SubResults ==
    {DashboardResult(rows, NoProvenance) : rows \in SeqsUpTo({Row(i) : i \in 1..MaxIds}, MaxRows)}

InitMerge ==
    /\ now = 0
    /\ employees = [e \in {"emp_1"} |-> Employee(e, "unit_123", "A")]
    /\ orgUnits = {OrgUnit("unit_123", "Sales APAC", 0, NoTime, "root.apac.sales")}
    /\ mappings = <<>>
    /\ responses = <<>>
    /\ cache = [n \in {} |-> <<>>]
    /\ sub = IdleSub
    /\ views = {}
    /\ adm = IdleAdm
    /\ lastQuery = NoQuery
    /\ lastRead = {}
    /\ merging \in [historical : SubResults, current : SubResults,
                    merged : {NoResult}, done : {FALSE}]
    /\ reqs = [r \in Requests |-> IdleReq]
    /\ calc = NoCalc

\* merged := s.mergeResults(historicalResult, currentResult)
MergeResults ==
    /\ ~merging.done
    /\ merging' = [merging EXCEPT
                     !.merged = mergeResults(merging.historical, merging.current),
                     !.done = TRUE]
    /\ UNCHANGED <<now, employees, orgUnits, mappings, responses, cache, sub, views,
                   adm, lastQuery, lastRead, reqs, calc>>

NextMerge == MergeResults

SpecMerge == InitMerge /\ [][NextMerge]_vars

(***************************************************************************)
(* Snapshot capture under concurrent changes (Spec).                       *)
(***************************************************************************)
CapturedSnapshot == buildCoreSnapshot(sub.employee, sub.orgUnit, Instant(sub.ts))

\* C1: the employee state and the org-unit state of a captured snapshot come
\* from one logical instant: the snapshot is one that a capture reading both
\* tables in a single instant between the call and the second read builds.
C1_SnapshotFromOneInstant ==
    sub.pc = "create" => CapturedSnapshot \in views

\* C3: when the employee read or the org-unit read of the capture fails, Submit
\* returns an error and no response is stored for the submission; every stored
\* response carries the values of both reads.
C3_FailedCaptureStoresNothing ==
    /\ (sub.pc = "done" /\ (sub.employee = NoEmployee \/ sub.orgUnit = NoUnit))
          => /\ sub.error \in {"failed to get employee", "failed to get org unit"}
             /\ sub.responseID = 0
             /\ Len(responses) = sub.stored
    /\ \A i \in DOMAIN responses :
          /\ responses[i].snapshot_core.employee_name # ""
          /\ responses[i].snapshot_core.unit_id # ""
          /\ responses[i].snapshot_core.department # ""

\* C3 witness: a Submit whose org-unit read failed after a successful employee
\* read has returned its error
C3_Witness ==
    /\ sub.pc = "done"
    /\ sub.employee # NoEmployee
    /\ sub.orgUnit = NoUnit
    /\ sub.error = "failed to get org unit"

SnapshotKeys ==
    {"employee_name", "employee_email", "department", "unit_id", "unit_path",
     "performance_grade", "role", "age", "tenure", "snapshot_version", "snapshot_time"}

C23_AnswersStored ==
    (sub.pc = "done" /\ sub.responseID # 0)
      => \A row \in RepoGetByID(responses, sub.responseID) :
            row.answers = sub.answers

\* the attributes CaptureSnapshot(employeeID, t) takes from the employee
\* record when it reads the table emps
CapturedAttributes(emps, employeeID) ==
    {[unit_id |-> e.unit_id, performance_grade |-> e.performance_grade,
      role |-> e.role] : e \in GetByID(emps, employeeID)}

\* C24: the employee attributes of a snapshot captured for timestamp t (unit
\* membership, performance grade, role) are those valid at t: while a capture
\* for t has still to read the employee record and the clock is past t, no
\* change made to the employee record alters the attributes the capture gets.
C24_AttributesValidAtTimestamp ==
    [][(sub.pc = "getEmployee" /\ sub'.pc = "getEmployee" /\ sub.ts < now)
         => CapturedAttributes(employees', sub.employeeID)
              = CapturedAttributes(employees, sub.employeeID)]_vars

\* the versions of the unit a pending capture looks up whose validity
\* [valid_from, valid_to) covers the capture's timestamp
Covering ==
    {r \in orgUnits : /\ r.unit_id = sub.employee.unit_id
                      /\ r.valid_from <= sub.ts
                      /\ (r.valid_to = NoTime \/ sub.ts < r.valid_to)}

\* C26: GetUnitAtTime(unitId, t) uses half-open validity: the lookup made by
\* a capture returns a version with validFrom <= t and (validTo absent or
\* t < validTo), and fails with a not-found error when there is none; a
\* version closed at t is never returned, its successor valid from t is.
C26_HalfOpenValidity ==
    [][(sub.pc = "getUnit" /\ sub'.pc # "getUnit")
         => IF Covering = {}
            THEN sub'.pc = "done" /\ sub'.error = "failed to get org unit"
                                 /\ sub'.orgUnit = NoUnit
            ELSE sub'.pc = "create" /\ sub'.error = ""
                                   /\ sub'.orgUnit \in Covering]_vars

C26_Witness ==
    /\ sub.pc = "create"
    /\ sub.orgUnit.valid_from = sub.ts
    /\ \E r \in orgUnits : /\ r.unit_id = sub.orgUnit.unit_id
                           /\ r.valid_to = sub.ts
                           /\ r # sub.orgUnit

\* C27: recording an organizational change is atomic: closing the old unit
\* and recording its replacement edge and successor units become visible
\* together or not at all.  In every observable state, each recorded edge
\* has its source version closed and its successor units present, and each
\* closed version has the edge that replaces it.
C27_ChangeAtomic ==
    /\ \A i \in DOMAIN mappings :
          LET m == mappings[i]
          IN  /\ \A r \in orgUnits :
                    (r.unit_id = m.source_unit_id /\ r.valid_from < m.effective_date)
                      => r.valid_to # NoTime
              /\ \A k \in DOMAIN m.target_unit_ids :
                    \E r \in orgUnits : /\ r.unit_id = m.target_unit_ids[k]
                                       /\ r.valid_from = m.effective_date
    /\ \A r \in orgUnits :
          r.valid_to # NoTime
            => \E i \in DOMAIN mappings : /\ mappings[i].source_unit_id = r.unit_id
                                         /\ mappings[i].effective_date = r.valid_to

(***************************************************************************)
(* Captures for employees not yet hired (SpecHire).                        *)
(***************************************************************************)
\* C25: a capture whose timestamp is before the employee's hire date fails
\* with a not-found error: no capture gets past the employee read with a
\* record whose hire date is after the capture's timestamp, and no stored
\* snapshot has a negative tenure.
C25_NoCaptureBeforeHire ==
    /\ sub.pc \in {"getUnit", "create"}
         => sub.employee.hire_date <= Instant(sub.ts)
    /\ \A i \in DOMAIN responses : responses[i].snapshot_core.tenure >= 0

(***************************************************************************)
(* Stored responses and dashboard queries (SpecQuery).                     *)
(***************************************************************************)
\* the dashboard request in flight and what it returned
Asked == lastQuery.query

Answer == lastQuery.out

Returned == SetOf(lastQuery.out.result.responses)

HasDepartment ==
    /\ "department" \in DOMAIN Asked.filters
    /\ Asked.filters["department"].kind = "string"

Department == Asked.filters["department"].s

\* the stored responses of the asked tenant and time range
InScope ==
    {responses[i] : i \in {j \in DOMAIN responses :
        /\ responses[j].tenant_id = Asked.tenantID
        /\ Asked.from <= responses[j].submitted_at
        /\ responses[j].submitted_at <= Asked.to}}

\* the row matches the caller's filters other than those in skip
MatchesOthers(row, skip) ==
    \A k \in DOMAIN Asked.filters \ skip :
        JsonText(row.snapshot_core, k) = Sprintf(Asked.filters[k])

\* C2: no step changes the snapshot_core of a stored response, and the rows a
\* Query or a GetByID returns are stored rows, snapshot_core included.
C2_SnapshotImmutable ==
    [][/\ \A i \in DOMAIN responses :
            /\ i \in DOMAIN responses'
            /\ responses'[i].response_id = responses[i].response_id
            /\ responses'[i].snapshot_core = responses[i].snapshot_core
       /\ \A r \in lastRead' : r \in SetOf(responses')
       /\ \A r \in SetOf(lastQuery'.out.result.responses) : r \in SetOf(responses')]_vars

\* C2 witness: the first response is read back after the employee's grade
\* changed and a second response with another snapshot was stored
C2_Witness ==
    /\ Len(responses) = 2
    /\ responses[1].snapshot_core # responses[2].snapshot_core
    /\ employees["emp_1"].performance_grade # responses[1].snapshot_core.performance_grade
    /\ \E r \in lastRead : r.response_id = 1 /\ r.snapshot_core = responses[1].snapshot_core

\* the unit identifiers from which unit id descends by lineage edges
RECURSIVE Ancestors(_, _)
Ancestors(ids, n) ==
    IF n = 0 THEN ids
    ELSE Ancestors(ids \cup {mappings[i].source_unit_id :
                                i \in {j \in DOMAIN mappings :
                                         SetOf(mappings[j].target_unit_ids) \cap ids # {}}},
                   n - 1)

\* the identifiers of the units that carry the name now
CurrentUnitsNamed(name) ==
    {u.unit_id : u \in {r \in orgUnits : r.unit_name = name /\ r.valid_to = NoTime}}

\* C4: a CURRENT query for the name of a current unit resolves to every unit
\* from which that unit descends by lineage edges (for 'SEA Sales' after the
\* split of unit_123: unit_123) and returns the stored responses of those units.
C4_ResolvesAllAncestors ==
    (Asked.filterMode = FilterModeCurrent /\ HasDepartment /\ Answer.err = "")
      => LET anchor == CurrentUnitsNamed(Department)
             older == Ancestors(anchor, Len(mappings)) \ anchor
         IN  /\ older \subseteq SetOf(Answer.resolved)
             /\ \A r \in InScope :
                   (r.snapshot_core.unit_id \in older /\ MatchesOthers(r, {"department"}))
                     => r \in Returned

\* C5: with unit_123 renamed to 'Revenue APAC', a CURRENT query for department
\* 'Revenue APAC' resolves to {unit_123} and returns the responses captured
\* before the rename with unit_id unit_123.
C5_RenameResolvesToUnit ==
    (/\ Asked.filterMode = FilterModeCurrent
     /\ HasDepartment
     /\ Department = "Revenue APAC"
     /\ CurrentUnitsNamed("Revenue APAC") = {"unit_123"}
     /\ Answer.err = "")
      => /\ SetOf(Answer.resolved) = {"unit_123"}
         /\ \A r \in InScope :
               (/\ r.snapshot_core.unit_id = "unit_123"
                /\ r.snapshot_core.department = "Sales APAC"
                /\ MatchesOthers(r, {"department", "unit_id"}))
                 => r \in Returned

\* C6: in CURRENT mode with a department filter, a stored response of the
\* tenant and time range that matches the other filters is returned if and
\* only if its snapshot unit_id is one of the resolved identifiers.
C6_UnitIdInResolvedSet ==
    (Asked.filterMode = FilterModeCurrent /\ HasDepartment /\ Answer.err = "")
      => \A r \in InScope :
            MatchesOthers(r, {"department", "unit_id"})
              => (r \in Returned <=> r.snapshot_core.unit_id \in SetOf(Answer.resolved))

\* C7: a HISTORICAL query runs the caller's query unchanged, gives no name to
\* the resolver and leaves the resolver cache as it was; it returns the stored
\* responses matching the caller's filters, so none with department
\* 'Sales APAC' for the filter 'Revenue APAC'.
C7_HistoricalUnchanged ==
    Asked.filterMode = FilterModeHistorical
      => /\ Answer.exec = <<Asked>>
         /\ Answer.lookups = <<>>
         /\ cache = lastQuery.cacheBefore
         /\ Answer.err = "" => Returned = {r \in InScope : MatchesOthers(r, {})}
         /\ (HasDepartment /\ Department = "Revenue APAC")
              => \A r \in Returned : r.snapshot_core.department # "Sales APAC"

\* C7 witness: after the rename a HISTORICAL query for 'Revenue APAC' has
\* returned nothing although a response with department 'Sales APAC' is stored
C7_Witness ==
    /\ Asked.filterMode = FilterModeHistorical
    /\ HasDepartment
    /\ Department = "Revenue APAC"
    /\ CurrentUnitsNamed("Revenue APAC") = {"unit_123"}
    /\ \E r \in InScope : r.snapshot_core.department = "Sales APAC"
    /\ Answer.result.count = 0

\* a filter key is carried by an executed query as the caller gave it
CarriedUnchanged(e, k) ==
    /\ (k \in DOMAIN e.filters <=> k \in DOMAIN Asked.filters)
    /\ k \in DOMAIN e.filters => e.filters[k] = Asked.filters[k]

\* C8 as stated: every executed query carries every key other than department
\* exactly as the caller gave it.
C8_OtherFiltersUntouched ==
    \A i \in DOMAIN Answer.exec :
        \A k \in (DOMAIN Answer.exec[i].filters \cup DOMAIN Asked.filters) \ {"department"} :
            CarriedUnchanged(Answer.exec[i], k)

\* C8 amended: every executed query carries every key other than department
\* and unit_id exactly as the caller gave it; unit_id is carried as the caller
\* gave it too, except in the current query of CURRENT and HYBRID mode with a
\* string department filter, where unit_id holds the resolved list and
\* department is gone.
C8_OtherFiltersUntouchedExceptUnitId ==
    \A i \in DOMAIN Answer.exec :
        LET e == Answer.exec[i]
            translated == /\ HasDepartment
                          /\ \/ Asked.filterMode = FilterModeCurrent
                             \/ Asked.filterMode = FilterModeHybrid /\ i = 2
        IN  /\ \A k \in (DOMAIN e.filters \cup DOMAIN Asked.filters)
                          \ {"department", "unit_id"} : CarriedUnchanged(e, k)
            /\ IF translated
               THEN /\ "department" \notin DOMAIN e.filters
                    /\ "unit_id" \in DOMAIN e.filters
                    /\ e.filters["unit_id"] = StrList(Answer.resolved)
               ELSE CarriedUnchanged(e, "unit_id") /\ CarriedUnchanged(e, "department")

\* C8 witness: a CURRENT query with a department and a performance_grade
\* filter has run with performance_grade as given and unit_id added
C8_Witness ==
    /\ Asked.filterMode = FilterModeCurrent
    /\ HasDepartment
    /\ "performance_grade" \in DOMAIN Asked.filters
    /\ Len(Answer.exec) = 1
    /\ Answer.exec[1].filters["performance_grade"] = Asked.filters["performance_grade"]
    /\ "unit_id" \in DOMAIN Answer.exec[1].filters
    /\ "unit_id" \notin DOMAIN Asked.filters

\* C9: a CURRENT query whose department names no organizational unit resolves
\* to the empty set without an error and returns zero responses.
C9_UnknownNameResolvesEmpty ==
    (/\ Asked.filterMode = FilterModeCurrent
     /\ HasDepartment
     /\ \A u \in orgUnits : u.unit_name # Department /\ u.unit_id # Department)
      => /\ Answer.resolved = <<>>
         /\ Answer.err = ""
         /\ Answer.result.count = 0

\* the stored responses the i-th executed query of the request selects
Selected(i) ==
    {r \in InScope :
        \A k \in DOMAIN Answer.exec[i].filters :
            JsonText(r.snapshot_core, k) = Sprintf(Answer.exec[i].filters[k])}

\* C11: a HYBRID result carries provenance with the number of responses of the
\* historical and of the current sub-query, its count is the number of merged
\* responses, at most the sum of the two and equal to it exactly when the
\* sub-results share no response; HISTORICAL and CURRENT results carry none.
C11_ProvenanceCounts ==
    /\ (Asked.filterMode = FilterModeHybrid /\ Answer.err = "")
         => LET p == Answer.result.provenance
            IN  /\ p.present
                /\ Len(Answer.exec) = 2
                /\ p.historical_count = Cardinality(Selected(1))
                /\ p.current_count = Cardinality(Selected(2))
                /\ Answer.result.count = Len(Answer.result.responses)
                /\ Answer.result.count = Cardinality(Selected(1) \cup Selected(2))
                /\ Answer.result.count <= p.historical_count + p.current_count
                /\ (Answer.result.count = p.historical_count + p.current_count
                      <=> Selected(1) \cap Selected(2) = {})
    /\ (Asked.filterMode \in {FilterModeHistorical, FilterModeCurrent} /\ Answer.err = "")
         => ~Answer.result.provenance.present

\* C11 witness: a HYBRID query whose two sub-queries both returned both stored
\* responses has answered with two merged responses
C11_Witness ==
    /\ Asked.filterMode = FilterModeHybrid
    /\ Answer.err = ""
    /\ Answer.result.provenance.historical_count = 2
    /\ Answer.result.provenance.current_count = 2
    /\ Answer.result.count = 2

\* C12: a HYBRID query whose historical or current sub-query fails returns an
\* error and no result, whatever the other sub-query selected.
C12_HybridFailsWhole ==
    (Asked.filterMode = FilterModeHybrid /\ (~lastQuery.oks[1] \/ ~lastQuery.oks[2]))
      => /\ Answer.err = "failed to query responses"
         /\ Answer.result = NoResult

\* C12 witness: the current sub-query of a HYBRID query failed after the
\* historical sub-query had selected a stored response, and Query returned the
\* error
C12_Witness ==
    /\ Asked.filterMode = FilterModeHybrid
    /\ lastQuery.oks = <<TRUE, FALSE>>
    /\ Len(Answer.exec) = 2
    /\ Selected(1) # {}
    /\ Answer.err # ""
    /\ Answer.result.responses = <<>>

\* C13: a Query with a filter mode other than HISTORICAL, CURRENT and HYBRID
\* returns an error and no result, runs no query against the response store,
\* gives no name to the resolver and leaves the resolver cache as it was.
C13_InvalidModeRejected ==
    (/\ lastQuery # NoQuery
     /\ Asked.filterMode \notin {FilterModeHistorical, FilterModeCurrent, FilterModeHybrid})
      => /\ Answer.err = "invalid filter mode"
         /\ Answer.result = NoResult
         /\ Answer.exec = <<>>
         /\ Answer.lookups = <<>>
         /\ cache = lastQuery.cacheBefore
         /\ Answer.filters = Asked.filters

\* C13 witness: a query in the unknown mode LATEST with a department filter,
\* over a store holding a response in its time range, has been rejected
C13_Witness ==
    /\ Asked.filterMode = "LATEST"
    /\ HasDepartment
    /\ InScope # {}
    /\ Answer.err = "invalid filter mode"
    /\ Answer.exec = <<>>

\* C14: a Query whose time range has From after To is rejected with an error
\* before any query is run against the response store, in every filter mode.
C14_MalformedRangeRejected ==
    (lastQuery # NoQuery /\ Asked.from > Asked.to)
      => /\ Answer.err # ""
         /\ Answer.exec = <<>>

\* the unit identifiers an edge names, and those of the units ever named name
EdgeUnits(edge) == {edge.source_unit_id} \cup SetOf(edge.target_unit_ids)

UnitsEverNamed(units, name) == {u.unit_id : u \in {r \in units : r.unit_name = name}}

\* C16: when a lineage edge is recorded that names a unit of a cached anchor,
\* the cached resolution of that anchor is dropped, so that the next
\* resolution is computed from the edges then in the store.
C16_CacheInvalidatedOnIngestion ==
    [][Len(mappings') > Len(mappings)
         => \A n \in DOMAIN cache :
               EdgeUnits(mappings'[Len(mappings')]) \cap UnitsEverNamed(orgUnits', n) # {}
                 => n \notin DOMAIN cache']_vars

\* C17: a resolution of a name equals the resolution computed afresh, and when
\* the name was resolved before it equals that earlier, cached resolution; the
\* resolution is what the cache holds afterwards.
C17_ResolutionIdempotent ==
    /\ Answer.lookups # <<>>
         => LET n == Answer.lookups[1]
            IN  /\ Answer.resolved = MapCurrentToHistorical([x \in {} |-> <<>>], n).result
                /\ n \in DOMAIN lastQuery.cacheBefore
                     => Answer.resolved = lastQuery.cacheBefore[n]
                /\ n \in DOMAIN cache
                /\ cache[n] = Answer.resolved
    /\ \A n \in DOMAIN cache :
          cache[n] = MapCurrentToHistorical([x \in {} |-> <<>>], n).result

\* C17 witness: a name resolved by an earlier query has been resolved again,
\* from the cache, to the same list
C17_Witness ==
    /\ Answer.lookups = <<"Revenue APAC">>
    /\ "Revenue APAC" \in DOMAIN lastQuery.cacheBefore
    /\ Answer.resolved = lastQuery.cacheBefore["Revenue APAC"]
    /\ Answer.resolved # <<>>

\* the sources of the edges into ids, an edge from a unit to itself aside
Predecessors(ids) ==
    {mappings[i].source_unit_id :
        i \in {j \in DOMAIN mappings :
                 /\ SetOf(mappings[j].target_unit_ids) \cap ids # {}
                 /\ mappings[j].source_unit_id \notin SetOf(mappings[j].target_unit_ids)}}

\* a unit among ids descends from itself
OnCycle(ids) ==
    \E x \in ids : x \in Ancestors(Predecessors({x}), Len(mappings))

\* C18: a CURRENT query for a unit whose lineage, followed backwards, contains
\* a cycle gets an error from the resolution, not a set of identifiers.
C18_CycleReported ==
    (/\ Asked.filterMode = FilterModeCurrent
     /\ HasDepartment
     /\ OnCycle(Ancestors(CurrentUnitsNamed(Department), Len(mappings))))
      => (Answer.err # "" /\ Answer.result = NoResult)

\* C21: two stored responses of the same employee captured for the same
\* timestamp carry the same version id, whatever the employee and the units
\* were at each capture.
C21_VersionIdFromEmployeeAndTime ==
    \A i, j \in DOMAIN responses :
        (/\ responses[i].employee_id = responses[j].employee_id
         /\ responses[i].snapshot_core.snapshot_time
              = responses[j].snapshot_core.snapshot_time)
          => responses[i].version_id = responses[j].version_id

\* C21 witness: two responses of one employee captured for the same timestamp
\* with different snapshots are stored
C21_Witness ==
    /\ Len(responses) = 2
    /\ responses[1].employee_id = responses[2].employee_id
    /\ responses[1].snapshot_core.snapshot_time = responses[2].snapshot_core.snapshot_time
    /\ responses[1].snapshot_core # responses[2].snapshot_core
    /\ responses[1].version_id = responses[2].version_id

\* C28: Query leaves the caller's query untouched: after Query returns, in
\* any filter mode and with or without an error, the Filters map supplied by
\* the caller holds exactly the keys and values it held before the call.
C28_CallerFiltersUntouched ==
    lastQuery # NoQuery => Answer.filters = Asked.filters

\* what a Query of the asked query in the given mode returns from the same
\* store and cache
AskedIn(mode) ==
    DashboardServiceQuery(responses, lastQuery.cacheBefore,
                          [Asked EXCEPT !.filterMode = mode],
                          NoIo(responses), NoIo(responses))

\* the predicate of an executed query: everything but the mode
Predicate(q) == [q EXCEPT !.filterMode = ""]

\* C29: in HYBRID mode the two sub-queries are independent of each other: the
\* historical sub-query executes the predicate and returns the rows of a
\* HISTORICAL-mode Query of the same query on the same store, the current
\* sub-query those of a CURRENT-mode Query, and the translation done for the
\* current sub-query leaves the historical predicate as the caller gave it.
C29_HybridSubQueriesIndependent ==
    (Asked.filterMode = FilterModeHybrid /\ Answer.err = "")
      => LET h == AskedIn(FilterModeHistorical)
             c == AskedIn(FilterModeCurrent)
         IN  /\ Len(Answer.exec) = 2
             /\ Predicate(Answer.exec[1]) = Predicate(h.exec[1])
             /\ Answer.exec[1].filters = Asked.filters
             /\ Predicate(Answer.exec[2]) = Predicate(c.exec[1])
             /\ Selected(1) = SetOf(h.result.responses)
             /\ Selected(2) = SetOf(c.result.responses)
             /\ Answer.result.provenance.historical_count = h.result.count
             /\ Answer.result.provenance.current_count = c.result.count
             /\ Returned = SetOf(h.result.responses) \cup SetOf(c.result.responses)

\* C29 witness: a HYBRID query by department whose historical sub-query
\* returned a response and whose translated current sub-query returned none
C29_Witness ==
    /\ Asked.filterMode = FilterModeHybrid
    /\ HasDepartment
    /\ Answer.err = ""
    /\ Answer.exec[2].filters # Asked.filters
    /\ Answer.result.provenance.historical_count = 1
    /\ Answer.result.provenance.current_count = 0

(***************************************************************************)
(* The resolver cache under parallel requests (SpecCache).                 *)
(***************************************************************************)
\* C15: while CURRENT or HYBRID queries run in parallel on the shared
\* DashboardService, no goroutine writes the OrgMapper cache map while another
\* goroutine reads or writes it.
C15_NoUnsynchronizedCacheAccess == ~MapRace

(***************************************************************************)
(* Dashboard requests while responses arrive (SpecStream).                 *)
(***************************************************************************)
\* C30: the responses returned by Query are, in every filter mode including
\* HYBRID, ordered by submittedAt descending (most recent first), number at
\* most 1000, and all belong to the query's tenant with submittedAt inside
\* the query's time range.
C30_OrderedLimitedScoped ==
    \A r \in Requests :
        reqs[r].pc = "done"
          => LET rows == reqs[r].result.responses
                 q == reqs[r].query
             IN  /\ \A i, j \in DOMAIN rows :
                        i < j => rows[i].submitted_at >= rows[j].submitted_at
                 /\ Len(rows) <= QueryLimit
                 /\ \A i \in DOMAIN rows :
                        /\ rows[i].tenant_id = q.tenantID
                        /\ q.from <= rows[i].submitted_at
                        /\ rows[i].submitted_at <= q.to

(***************************************************************************)
(* calculateAge and calculateTenure (SpecCalc).                            *)
(***************************************************************************)
\* the whole years from a date to a later instant, by the calendar
WholeYears(from, asOf) ==
    IF asOf.m < from.m \/ (asOf.m = from.m /\ asOf.d < from.d)
    THEN asOf.y - from.y - 1
    ELSE asOf.y - from.y

\* C19: calculateAge returns the whole years from the birth date to asOf: the
\* year difference, less one exactly when asOf's month and day come before the
\* birthday's.
C19_AgeInWholeYears ==
    calc.done = "age" => calc.age = WholeYears(calc.from, calc.asOf)

\* the whole hours from calc.from to calc.asOf
ElapsedHours == TimeOf(calc.asOf) - TimeOf(calc.from)

IdsOf(result) == {result.responses[i].response_id : i \in DOMAIN result.responses}

\* C10: the merged result holds each response identifier at most once, and its
\* identifiers are exactly those of the historical and the current sub-result.
C10_MergeDeduplicates ==
    merging.done
      => /\ \A i, j \in DOMAIN merging.merged.responses :
               merging.merged.responses[i].response_id
                 = merging.merged.responses[j].response_id => i = j
         /\ IdsOf(merging.merged) = IdsOf(merging.historical) \cup IdsOf(merging.current)

\* C10 witness: two sub-results that share an identifier, one of them repeating
\* an identifier, have been merged
C10_Witness ==
    /\ merging.done
    /\ IdsOf(merging.historical) \cap IdsOf(merging.current) # {}
    /\ Len(merging.historical.responses) > Cardinality(IdsOf(merging.historical))
    /\ Len(merging.merged.responses) = 2

====
